---- MODULE Spec2Model ----
(***************************************************************************)
(* Model of trail: validation of a road alignment given as a sequence of   *)
(* Straight / Clothoid / Radius elements (main in the alignment checker).  *)
(*                                                                         *)
(* Representation of numbers.                                              *)
(*   Length and Radius are the integers read from the input row.           *)
(*   MinLength, MaxLength, AMin and AMax are non-negative float64 values   *)
(*   of the form vp/3.6*s or sqrt(|r|*l).  A non-negative real x is kept   *)
(*   as the integer 324*x*x ("Sq" form), which is exact for both shapes    *)
(*   and preserves the order of non-negative reals; float64 rounding is    *)
(*   not modelled.                                                         *)
(*   Slices are functions over 0..len-1, so indices are the source's.      *)
(***************************************************************************)
EXTENDS Integers, Sequences, FiniteSets, TLC

\* ------------------------------------------------------------------ bounds
MaxLen == 4

\* input values a row may carry
Lengths == {0, 150}
Radii == {-80, 300, 400}

\* ------------------------------------------------------------- constants
Straight == "Straight"
Clothoid == "Clothoid"
Radius == "Radius"

EVpDiff == "EVpDiff"
EMinLength == "EMinLength"
EMaxLength == "EMaxLength"

MaxVp == 100
MaxStraightVp == 100

nil == -1

straightVps ==
  [b \in {40, 50, 60, 70, 80, 90} |->
     CASE b = 40 -> <<30, 100, 180, 270, 380, 500>>
       [] b = 50 -> <<35, 120, 210, 320, 440>>
       [] b = 60 -> <<40, 140, 250, 370>>
       [] b = 70 -> <<50, 160, 280>>
       [] b = 80 -> <<60, 180>>
       [] b = 90 -> <<70>>]

clothoidMinLengths ==
  [v \in {40, 45, 50, 55, 60, 65, 70, 75, 80, 85, 90, 95, 100, 110, 120, 130} |->
     CASE v = 40 -> 15
       [] v = 45 -> 20
       [] v = 50 -> 20
       [] v = 55 -> 30
       [] v = 60 -> 30
       [] v = 65 -> 39
       [] v = 70 -> 39
       [] v = 75 -> 44
       [] v = 80 -> 44
       [] v = 85 -> 50
       [] v = 90 -> 50
       [] v = 95 -> 56
       [] v = 100 -> 56
       [] v = 110 -> 61
       [] v = 120 -> 67
       [] v = 130 -> 72]

typeStringifications ==
  [t \in {Straight, Radius, Clothoid} |-> t]

\* --------------------------------------------------------------- helpers
abs(a) == IF a < 0 THEN -a ELSE a

min(a, b) == IF a < b THEN a ELSE b

max(a, b) == IF a > b THEN a ELSE b

len(s) == Cardinality(DOMAIN s)

\* append(s, e) on a 0-based slice
append(s, e) == [j \in 0..len(s) |-> IF j < len(s) THEN s[j] ELSE e]

\* Sq form of an integer number of meters
SqOfInt(x) == 324 * x * x

\* math.Sqrt(math.Abs(r) * l) in Sq form
SqrtAbsTimes(r, l) == 324 * abs(r) * l

determineRadiusVp(radius) ==
  LET r == abs(radius) IN
  IF r <= 30 THEN 40
  ELSE IF r <= 40 THEN 45
  ELSE IF r <= 50 THEN 50
  ELSE IF r <= 60 THEN 55
  ELSE IF r <= 80 THEN 60
  ELSE IF r <= 100 THEN 65
  ELSE IF r <= 130 THEN 70
  ELSE IF r <= 160 THEN 75
  ELSE IF r <= 200 THEN 80
  ELSE IF r <= 250 THEN 85
  ELSE IF r <= 300 THEN 90
  ELSE IF r <= 350 THEN 95
  ELSE IF r <= 430 THEN 100
  ELSE IF r <= 530 THEN 110
  ELSE IF r <= 670 THEN 120
  ELSE 130

\* index of the first breakpoint with length <= breakpoint, 0 when none
RECURSIVE FirstBreakpoint(_, _, _)
FirstBreakpoint(vps, length, k) ==
  IF k > Len(vps) THEN 0
  ELSE IF length <= vps[k] THEN k
  ELSE FirstBreakpoint(vps, length, k + 1)

\* determineStraightVp: [ok |-> FALSE] is the log.Fatalf("vp not found")
determineStraightVp(radiusVp, length) ==
  LET vpAddition == radiusVp % 10
      vp == radiusVp - vpAddition
  IN IF vp \notin DOMAIN straightVps
     THEN [ok |-> FALSE, vp |-> vp]
     ELSE LET k == FirstBreakpoint(straightVps[vp], length, 1)
          IN IF k # 0
             THEN [ok |-> TRUE, vp |-> vp + 10 * (k - 1) + vpAddition]
             ELSE [ok |-> TRUE, vp |-> MaxStraightVp]

\* determineMinClothoidLength: [ok |-> FALSE] is the log.Fatalf
determineMinClothoidLength(radiusVp) ==
  IF radiusVp \in DOMAIN clothoidMinLengths
  THEN [ok |-> TRUE, length |-> clothoidMinLengths[radiusVp]]
  ELSE [ok |-> FALSE, length |-> 0]

\* float64(vp) / 3.6 * float64(seconds) = vp*seconds*5/18, in Sq form
drivingSecondLength(vp, seconds) == (vp * seconds * 5) * (vp * seconds * 5)

\* the for loop of getDirectedNextRadius from loop variable i on
RECURSIVE DirectedScan(_, _, _, _)
DirectedScan(elems, i, increment, distance) ==
  IF ~(i > 0 /\ i < len(elems))
  THEN [result |-> nil, distance |-> distance]
  ELSE IF elems[i].Type = Radius
       THEN [result |-> i, distance |-> distance + 1]
       ELSE DirectedScan(elems, i + increment, increment, distance + 1)

getDirectedNextRadius(elems, pos, increment) ==
  DirectedScan(elems, pos + increment, increment, 0)

getNextRadius(elems, pos) == getDirectedNextRadius(elems, pos, 1).result

getPreviousRadius(elems, pos) == getDirectedNextRadius(elems, pos, -1).result

\* a deliberately wrong variant: ties go to the previous element
getNearestRadiusTieToPrevious(elems, pos) ==
  LET p == getDirectedNextRadius(elems, pos, -1)
      n == getDirectedNextRadius(elems, pos, 1)
  IN IF p.result = nil /\ n.result = nil THEN nil
     ELSE IF p.result # nil /\ n.result = nil THEN p.result
     ELSE IF p.result = nil /\ n.result # nil THEN n.result
     ELSE IF p.distance <= n.distance THEN p.result
     ELSE n.result

\* getNearestRadius: nil is the log.Fatalf("could not find nearest radius")
getNearestRadius(elems, pos) ==
  LET p == getDirectedNextRadius(elems, pos, -1)
      n == getDirectedNextRadius(elems, pos, 1)
  IN IF p.result = nil /\ n.result = nil THEN nil
     ELSE IF p.result # nil /\ n.result = nil THEN p.result
     ELSE IF p.result = nil /\ n.result # nil THEN n.result
     ELSE IF p.distance < n.distance THEN p.result
     ELSE n.result

\* the names stringifyErrors appends, in order (strings.Join is the list)
stringifyErrors(e) ==
  (IF EVpDiff \in e THEN <<"VpDiff">> ELSE <<>>) \o
  (IF EMinLength \in e THEN <<"MinLength">> ELSE <<>>)

stringifyType(t) == typeStringifications[t]

\* createTable without the header row; the %.2f columns are not modelled
RECURSIVE TableRows(_, _)
TableRows(elems, k) ==
  IF k >= len(elems) THEN <<>>
  ELSE <<[Id |-> elems[k].Id,
          Type |-> stringifyType(elems[k].Type),
          Vp |-> elems[k].Vp,
          Errors |-> stringifyErrors(elems[k].Errors)]>>
       \o TableRows(elems, k + 1)

createTable(elems) == TableRows(elems, 0)

\* the elements with Errors != 0, in order, as a 0-based slice
RECURSIVE InvalidFrom(_, _)
InvalidFrom(elems, k) ==
  IF k >= len(elems) THEN <<>>
  ELSE (IF elems[k].Errors # {} THEN <<elems[k]>> ELSE <<>>)
       \o InvalidFrom(elems, k + 1)

SliceOf(seq) == [j \in 0..(Len(seq) - 1) |-> seq[j + 1]]

RECURSIVE SumLength(_, _)
SumLength(elems, k) ==
  IF k >= len(elems) THEN 0 ELSE elems[k].Length + SumLength(elems, k + 1)

RECURSIVE SumVpProduct(_, _)
SumVpProduct(elems, k) ==
  IF k >= len(elems) THEN 0
  ELSE elems[k].Length * elems[k].Vp + SumVpProduct(elems, k + 1)

\* ----------------------------------------------------------------- state
VARIABLES elements, pc, i, printAll, table, meanVp

vars == <<elements, pc, i, printAll, table, meanVp>>

\* new(Element) filled in by readElement
readElement(id, type, length, radius) ==
  [Id |-> id, Type |-> type, Length |-> length, Radius |-> radius,
   Vp |-> 0, MinLength |-> 0, MaxLength |-> 0, AMin |-> 0, AMax |-> 0,
   Errors |-> {}]

Init ==
  /\ elements = <<>>
  /\ pc = "read"
  /\ i = 0
  /\ printAll = FALSE
  /\ table = <<>>
  /\ meanVp = "unset"

\* one data row appended; rows are numbered in file order, the radius
\* column is empty for Straight and Clothoid rows
ReadRow ==
  /\ pc = "read"
  /\ len(elements) < MaxLen
  /\ \E type \in {Straight, Clothoid, Radius}, length \in Lengths, radius \in Radii \cup {0} :
       /\ (type = Radius) = (radius # 0)
       /\ elements' = append(elements, readElement(len(elements) + 1, type, length, radius))
  /\ UNCHANGED <<pc, i, printAll, table, meanVp>>

\* a row whose id, type, length or radius does not parse
ReadMalformedRow ==
  /\ pc = "read"
  /\ pc' = "fatalRead"
  /\ UNCHANGED <<elements, i, printAll, table, meanVp>>

ReadDone ==
  /\ pc = "read"
  /\ pc' = "radiusVp"
  /\ i' = 0
  /\ UNCHANGED <<elements, printAll, table, meanVp>>

\* the loop index after the turns from k on that find another kind than t
RECURSIVE SkipOthers(_, _, _)
SkipOthers(elems, k, t) ==
  IF k < len(elems) /\ elems[k].Type # t
  THEN SkipOthers(elems, k + 1, t)
  ELSE k

\* the loop "determine radius vp and length of clothoids": the turns up to
\* and including the next Radius element; the loop is left when no Radius
\* element follows
RadiusVpStep ==
  /\ pc = "radiusVp"
  /\ LET j == SkipOthers(elements, i, Radius)
     IN IF j < len(elements)
        THEN LET vp == min(MaxVp, determineRadiusVp(elements[j].Radius))
                 l == determineMinClothoidLength(vp)
             IN IF l.ok
                THEN /\ elements' = [elements EXCEPT
                            ![j].Vp = vp,
                            ![j].AMin = SqrtAbsTimes(elements[j].Radius, l.length),
                            ![j].AMax = SqrtAbsTimes(elements[j].Radius, l.length * 2)]
                     /\ IF SkipOthers(elements, j + 1, Radius) < len(elements)
                        THEN i' = j + 1 /\ pc' = pc
                        ELSE i' = 0 /\ pc' = "straightVp"
                ELSE /\ elements' = [elements EXCEPT ![j].Vp = vp]
                     /\ pc' = "fatalNoClothoidLength"
                     /\ i' = j
        ELSE /\ pc' = "straightVp"
             /\ i' = 0
             /\ UNCHANGED elements
  /\ UNCHANGED <<printAll, table, meanVp>>

\* radiusVp of the loop "determine straigth vp"
StraightRadiusVp(elems, pos) ==
  LET p == getPreviousRadius(elems, pos)
      n == getNextRadius(elems, pos)
      v1 == IF p # nil THEN max(elems[p].Vp, 0) ELSE 0
  IN IF n # nil THEN max(elems[n].Vp, v1) ELSE v1

\* the loop "determine straigth vp": the turns up to and including the next
\* Straight element; the loop is left when no Straight element follows
StraightVpStep ==
  /\ pc = "straightVp"
  /\ LET j == SkipOthers(elements, i, Straight)
     IN IF j < len(elements)
        THEN LET r == determineStraightVp(StraightRadiusVp(elements, j),
                                          elements[j].Length)
             IN IF r.ok
                THEN /\ elements' = [elements EXCEPT ![j].Vp = r.vp]
                     /\ IF SkipOthers(elements, j + 1, Straight) < len(elements)
                        THEN i' = j + 1 /\ pc' = pc
                        ELSE i' = 0 /\ pc' = "clothoidVp"
                ELSE /\ pc' = "fatalVpNotFound"
                     /\ i' = j
                     /\ UNCHANGED elements
        ELSE /\ pc' = "clothoidVp"
             /\ i' = 0
             /\ UNCHANGED elements
  /\ UNCHANGED <<printAll, table, meanVp>>

\* a deliberately wrong variant: the clothoid loop fused with the minimum-length loop
ClothoidVpStepFused ==
  /\ pc = "clothoidVp"
  /\ LET j == SkipOthers(elements, i, Clothoid)
     IN IF j < len(elements)
        THEN LET radius == getNearestRadius(elements, j)
             IN IF radius # nil
                THEN /\ elements' = [elements EXCEPT
                            ![j].Vp = elements[radius].Vp,
                            ![j].MinLength = elements[radius].AMin,
                            ![j].MaxLength = elements[radius].AMax]
                     /\ IF SkipOthers(elements, j + 1, Clothoid) < len(elements)
                        THEN i' = j + 1 /\ pc' = pc
                        ELSE i' = 0 /\ pc' = "minLength"
                ELSE /\ pc' = "fatalNoNearestRadius"
                     /\ i' = j
                     /\ UNCHANGED elements
        ELSE /\ pc' = "minLength"
             /\ i' = 0
             /\ UNCHANGED elements
  /\ UNCHANGED <<printAll, table, meanVp>>

\* the loop "determine clothoid vp": the turns up to and including the next
\* Clothoid element; the loop is left when no Clothoid element follows
ClothoidVpStep ==
  /\ pc = "clothoidVp"
  /\ LET j == SkipOthers(elements, i, Clothoid)
     IN IF j < len(elements)
        THEN LET radius == getNearestRadius(elements, j)
             IN IF radius # nil
                THEN /\ elements' = [elements EXCEPT ![j].Vp = elements[radius].Vp]
                     /\ IF SkipOthers(elements, j + 1, Clothoid) < len(elements)
                        THEN i' = j + 1 /\ pc' = pc
                        ELSE i' = 0 /\ pc' = "minLength"
                ELSE /\ pc' = "fatalNoNearestRadius"
                     /\ i' = j
                     /\ UNCHANGED elements
        ELSE /\ pc' = "minLength"
             /\ i' = 0
             /\ UNCHANGED elements
  /\ UNCHANGED <<printAll, table, meanVp>>

\* MinLength of a Straight in the loop "determine minimum length of elements"
StraightMinLength(elems, pos) ==
  LET p == getPreviousRadius(elems, pos)
      n == getNextRadius(elems, pos)
  IN IF p # nil /\ n # nil
     THEN IF elems[p].Radius < 0 /\ elems[n].Radius < 0
          THEN drivingSecondLength(elems[pos].Vp, 5)
          ELSE IF elems[p].Radius > 0 /\ elems[n].Radius > 0
               THEN drivingSecondLength(elems[pos].Vp, 5)
               ELSE drivingSecondLength(elems[pos].Vp, 1)
     ELSE drivingSecondLength(elems[pos].Vp, 1)

\* where the loop over all elements goes after the turn on element k
AfterTurn(k, stage, nextStage) ==
  IF k + 1 < len(elements)
  THEN i' = k + 1 /\ pc' = stage
  ELSE i' = 0 /\ pc' = nextStage

\* one turn of the loop "determine minimum length of elements"; the loop is
\* left after the turn on the last element
MinLengthStep ==
  /\ pc = "minLength"
  /\ IF i < len(elements)
     THEN CASE elements[i].Type = Radius ->
                 /\ elements' = [elements EXCEPT
                        ![i].MinLength = drivingSecondLength(elements[i].Vp, 1)]
                 /\ AfterTurn(i, "minLength", "vpDiff")
            [] elements[i].Type = Straight ->
                 /\ elements' = [elements EXCEPT
                        ![i].MinLength = StraightMinLength(elements, i)]
                 /\ AfterTurn(i, "minLength", "vpDiff")
            [] elements[i].Type = Clothoid ->
                 LET radius == getNearestRadius(elements, i)
                 IN IF radius # nil
                    THEN /\ elements' = [elements EXCEPT
                                ![i].MinLength = elements[radius].AMin,
                                ![i].MaxLength = elements[radius].AMax]
                         /\ AfterTurn(i, "minLength", "vpDiff")
                    ELSE /\ pc' = "fatalNoNearestRadius"
                         /\ UNCHANGED <<elements, i>>
            [] OTHER ->
                 /\ pc' = "fatalUnknownType"
                 /\ UNCHANGED <<elements, i>>
     ELSE /\ pc' = "vpDiff"
          /\ i' = 0
          /\ UNCHANGED elements
  /\ UNCHANGED <<printAll, table, meanVp>>

\* a deliberately wrong variant: the strict threshold everywhere
VpDiffInvalidStrict(a, b) == abs(a - b) > 20

\* invalid of the loop "check vp differences"
VpDiffInvalid(a, b) ==
  IF a = 100 \/ b = 100 THEN abs(a - b) >= 20 ELSE abs(a - b) > 20

\* one turn of the loop "check vp differences"; elements[:len(elements)-1]
\* panics on an empty slice; the loop is left after the turn on the last pair
VpDiffStep ==
  /\ pc = "vpDiff"
  /\ IF len(elements) = 0
     THEN /\ pc' = "panic"
          /\ UNCHANGED <<elements, i>>
     ELSE IF i < len(elements) - 1
          THEN /\ elements' =
                    IF VpDiffInvalid(elements[i].Vp, elements[i + 1].Vp)
                    THEN [elements EXCEPT
                            ![i].Errors = @ \cup {EVpDiff},
                            ![i + 1].Errors = @ \cup {EVpDiff}]
                    ELSE elements
               /\ IF i + 1 < len(elements) - 1
                  THEN i' = i + 1 /\ pc' = pc
                  ELSE i' = 0 /\ pc' = "checkLengths"
          ELSE /\ pc' = "checkLengths"
               /\ i' = 0
               /\ UNCHANGED elements
  /\ UNCHANGED <<printAll, table, meanVp>>

\* the flags the loop "check lengths" adds to element e
LengthErrors(e) ==
  (IF SqOfInt(e.Length) < e.MinLength THEN {EMinLength} ELSE {}) \cup
  (IF e.MaxLength # 0 /\ SqOfInt(e.Length) > e.MaxLength THEN {EMaxLength} ELSE {})

\* one turn of the loop "check lengths"; the loop is left after the turn on
\* the last element
CheckLengthsStep ==
  /\ pc = "checkLengths"
  /\ IF i < len(elements)
     THEN /\ elements' = [elements EXCEPT ![i].Errors = @ \cup LengthErrors(elements[i])]
          /\ AfterTurn(i, "checkLengths", "table")
     ELSE /\ pc' = "table"
          /\ i' = 0
          /\ UNCHANGED elements
  /\ UNCHANGED <<printAll, table, meanVp>>

\* table selection; the -all flag is an input
TableStep ==
  /\ pc = "table"
  /\ \E all \in BOOLEAN :
       /\ printAll' = all
       /\ table' = IF all
                   THEN createTable(elements)
                   ELSE createTable(SliceOf(InvalidFrom(elements, 0)))
  /\ pc' = "meanVp"
  /\ UNCHANGED <<elements, i, meanVp>>

\* "calculate mean vp": the float64 quotient, kept as numerator and
\* denominator; 0/0 is NaN (lengths are not negative, so the numerator is 0
\* whenever the denominator is)
MeanVpStep ==
  /\ pc = "meanVp"
  /\ LET totalLength == SumLength(elements, 0)
         vpProduct == SumVpProduct(elements, 0)
     IN meanVp' = IF totalLength = 0
                  THEN "NaN"
                  ELSE [num |-> vpProduct, den |-> totalLength]
  /\ pc' = "done"
  /\ UNCHANGED <<elements, i, printAll, table>>

Next ==
  \/ ReadRow
  \/ ReadMalformedRow
  \/ ReadDone
  \/ RadiusVpStep
  \/ StraightVpStep
  \/ ClothoidVpStep
  \/ MinLengthStep
  \/ VpDiffStep
  \/ CheckLengthsStep
  \/ TableStep
  \/ MeanVpStep

Spec == Init /\ [][Next]_vars

\* ---------------------------------------------------------------- claims
\* positions of the Radius elements on side d of pos
RadiusOnSide(elems, pos, d) ==
  {j \in DOMAIN elems : (j - pos) * d > 0 /\ elems[j].Type = Radius}

\* the Radius position on side d closest to pos, nil when there is none
ClosestRadius(elems, pos, d) ==
  IF RadiusOnSide(elems, pos, d) = {} THEN nil
  ELSE CHOOSE j \in RadiusOnSide(elems, pos, d) :
         \A k \in RadiusOnSide(elems, pos, d) : abs(j - pos) <= abs(k - pos)

StageNo ==
  CASE pc = "read" -> 0
    [] pc = "radiusVp" -> 1
    [] pc = "straightVp" -> 2
    [] pc = "clothoidVp" -> 3
    [] pc = "minLength" -> 4
    [] pc = "vpDiff" -> 5
    [] pc = "checkLengths" -> 6
    [] pc = "table" -> 7
    [] pc = "meanVp" -> 8
    [] pc = "done" -> 9
    [] OTHER -> -1

\* C1: for every position and direction the directed scan returns the
\* closest Radius among all in-bounds positions on that side (index 0
\* included) with its step distance, and none exactly when that side holds
\* no Radius.
C1_DirectedScanFindsClosest ==
  \A pos \in DOMAIN elements : \A d \in {-1, 1} :
    LET r == getDirectedNextRadius(elements, pos, d)
        c == ClosestRadius(elements, pos, d)
    IN /\ r.result = c
       /\ c # nil => r.distance = abs(c - pos)

\* what C2 says getNearestRadius returns at pos, given the two scans
C2_NearestOfScans(pos) ==
  LET p == getDirectedNextRadius(elements, pos, -1)
      n == getDirectedNextRadius(elements, pos, 1)
      r == getNearestRadius(elements, pos)
  IN /\ (p.result # nil /\ n.result # nil /\ p.distance < n.distance) => r = p.result
     /\ (p.result # nil /\ n.result # nil /\ n.distance < p.distance) => r = n.result
     /\ (p.result # nil /\ n.result # nil /\ n.distance = p.distance) => r = n.result
     /\ (p.result # nil /\ n.result = nil) => r = p.result
     /\ (p.result = nil /\ n.result # nil) => r = n.result
     /\ (p.result = nil /\ n.result = nil) => r = nil

\* the Clothoid positions the clothoid-vp loop has gone past
ClothoidVpAssigned ==
  {k \in DOMAIN elements :
     /\ elements[k].Type = Clothoid
     /\ pc = "minLength" \/ (pc = "clothoidVp" /\ k < i)}

VpOrZero(elems, j) == IF j = nil THEN 0 ELSE elems[j].Vp

\* straightVp of the claim: bucket + 10*k + addition for the smallest index k
\* (from 0) whose breakpoint is >= length, MaxStraightVp when there is none
ClaimStraightVp(radiusVp, length) ==
  LET addition == radiusVp % 10
      bucket == radiusVp - addition
      list == IF bucket \in DOMAIN straightVps THEN straightVps[bucket] ELSE <<>>
      hits == {k \in 1..Len(list) : list[k] >= length}
  IN IF hits = {} THEN 100
     ELSE bucket + 10 * ((CHOOSE k \in hits : \A m \in hits : k <= m) - 1) + addition

\* C3: after the speed-assignment stage every Straight has
\* Vp = straightVp(max(Vp of previous Radius, Vp of next Radius), length),
\* a missing neighbour counting as 0.
C3_StraightVp ==
  StageNo >= 3 =>
    \A k \in DOMAIN elements :
      elements[k].Type = Straight =>
        elements[k].Vp =
          ClaimStraightVp(max(VpOrZero(elements, ClosestRadius(elements, k, -1)),
                              VpOrZero(elements, ClosestRadius(elements, k, 1))),
                          elements[k].Length)

\* ------------------------------------------------------------------ C4
\* the pair (a, b) of adjacent Vp values violates the threshold
ClaimPairViolates(a, b) ==
  IF a = 100 \/ b = 100 THEN abs(a - b) >= 20 ELSE abs(a - b) > 20

\* C4: after the Vp-difference pass an element carries VpDifference exactly
\* when it belongs to an adjacent pair that violates the threshold (>= 20
\* when either Vp is 100, > 20 otherwise).
C4_VpDifference ==
  StageNo >= 6 =>
    \A k \in DOMAIN elements :
      (EVpDiff \in elements[k].Errors) <=>
        \/ k - 1 \in DOMAIN elements
           /\ ClaimPairViolates(elements[k - 1].Vp, elements[k].Vp)
        \/ k + 1 \in DOMAIN elements
           /\ ClaimPairViolates(elements[k].Vp, elements[k + 1].Vp)

\* C4 witness: the pass has run over a pair 20 apart at the ceiling (both
\* flagged) and a pair 20 apart below it whose first element is unflagged.
C4_Witness ==
  /\ StageNo >= 6
  /\ \E k \in DOMAIN elements :
       /\ k + 1 \in DOMAIN elements
       /\ abs(elements[k].Vp - elements[k + 1].Vp) = 20
       /\ elements[k].Vp = 100 \/ elements[k + 1].Vp = 100
       /\ EVpDiff \in elements[k].Errors
       /\ EVpDiff \in elements[k + 1].Errors
  /\ \E k \in DOMAIN elements :
       /\ k + 1 \in DOMAIN elements
       /\ abs(elements[k].Vp - elements[k + 1].Vp) = 20
       /\ elements[k].Vp # 100 /\ elements[k + 1].Vp # 100
       /\ EVpDiff \notin elements[k].Errors

\* ------------------------------------------------------------------ C5
\* the Radius nearest to pos over the whole sequence, the next one on a tie
ClaimNearestRadius(elems, pos) ==
  LET p == ClosestRadius(elems, pos, -1)
      n == ClosestRadius(elems, pos, 1)
  IN IF n = nil THEN p
     ELSE IF p = nil THEN n
     ELSE IF pos - p < n - pos THEN p
     ELSE n

\* AMin^2 = |radius| * minClothLen of the Radius at position r, in Sq form
ClaimAMin(elems, r) ==
  324 * abs(elems[r].Radius) * clothoidMinLengths[elems[r].Vp]

\* AMax^2 = 2 * |radius| * minClothLen of the Radius at position r, in Sq form
ClaimAMax(elems, r) ==
  324 * 2 * abs(elems[r].Radius) * clothoidMinLengths[elems[r].Vp]

\* C5: after the length-bounds pass BelowMinLength is set exactly when
\* length < minLength and AboveMaxLength exactly when maxLength is nonzero
\* and length > maxLength; a Clothoid's bounds are the AMin and AMax of its
\* nearest Radius; Straight and Radius elements never get AboveMaxLength.
C5_LengthBounds ==
  StageNo >= 7 =>
    \A k \in DOMAIN elements :
      LET e == elements[k] IN
      /\ (EMinLength \in e.Errors) <=> (SqOfInt(e.Length) < e.MinLength)
      /\ (EMaxLength \in e.Errors) <=>
           (e.MaxLength # 0 /\ SqOfInt(e.Length) > e.MaxLength)
      /\ e.Type # Clothoid => EMaxLength \notin e.Errors
      /\ e.Type = Clothoid =>
           /\ ClaimNearestRadius(elements, k) # nil
           /\ e.MinLength = ClaimAMin(elements, ClaimNearestRadius(elements, k))
           /\ e.MaxLength = ClaimAMax(elements, ClaimNearestRadius(elements, k))

\* ------------------------------------------------------------------ C6
\* Vp/3.6*seconds in Sq form
ClaimTravelLength(vp, seconds) == 25 * vp * vp * seconds * seconds

\* a previous and a next Radius both exist and their radii have one sign
ClaimSameSignFlanks(elems, pos) ==
  LET p == ClosestRadius(elems, pos, -1)
      n == ClosestRadius(elems, pos, 1)
  IN /\ p # nil
     /\ n # nil
     /\ \/ elems[p].Radius < 0 /\ elems[n].Radius < 0
        \/ elems[p].Radius > 0 /\ elems[n].Radius > 0

\* C6: after the length-constraint stage a Straight has the 5-second travel
\* length as minLength exactly when a previous and a next Radius both exist
\* with radii of the same sign, the 1-second length otherwise; a Radius has
\* the 1-second length.
C6_MinLength ==
  StageNo >= 5 =>
    \A k \in DOMAIN elements :
      LET e == elements[k] IN
      /\ e.Type = Radius => e.MinLength = ClaimTravelLength(e.Vp, 1)
      /\ e.Type = Straight =>
           e.MinLength = IF ClaimSameSignFlanks(elements, k)
                         THEN ClaimTravelLength(e.Vp, 5)
                         ELSE ClaimTravelLength(e.Vp, 1)

\* ------------------------------------------------------------------ C7
\* the element a table row reports
ElementOfRow(row) == CHOOSE k \in DOMAIN elements : elements[k].Id = row.Id

\* C7: the Errors column of every reported row names exactly the flags set
\* on its element (one name per set flag), and in errors-only mode the rows
\* are exactly the flagged elements in sequence order, none with an empty
\* Errors column.
C7_ErrorsColumn ==
  StageNo >= 8 =>
    /\ \A n \in 1..Len(table) :
         /\ \E k \in DOMAIN elements : elements[k].Id = table[n].Id
         /\ Len(table[n].Errors) = Cardinality(elements[ElementOfRow(table[n])].Errors)
         /\ ("VpDiff" \in {table[n].Errors[m] : m \in 1..Len(table[n].Errors)})
              <=> (EVpDiff \in elements[ElementOfRow(table[n])].Errors)
         /\ ("MinLength" \in {table[n].Errors[m] : m \in 1..Len(table[n].Errors)})
              <=> (EMinLength \in elements[ElementOfRow(table[n])].Errors)
    /\ ~printAll =>
         /\ {table[n].Id : n \in 1..Len(table)} =
              {elements[k].Id : k \in {j \in DOMAIN elements : elements[j].Errors # {}}}
         /\ \A n \in 1..Len(table) : \A m \in 1..Len(table) :
              n < m => ElementOfRow(table[n]) < ElementOfRow(table[m])
         /\ \A n \in 1..Len(table) : table[n].Errors # <<>>

\* ------------------------------------------------------------------ C8
\* C8: with a total length of zero the reporter surfaces an explicit
\* "undefined" value instead of the quotient, and the run finishes; with a
\* nonzero total it reports sum(length*Vp) / sum(length).
C8_MeanVp ==
  pc = "done" =>
    IF SumLength(elements, 0) = 0
    THEN meanVp = "undefined"
    ELSE meanVp = [num |-> SumVpProduct(elements, 0), den |-> SumLength(elements, 0)]

\* ------------------------------------------------------------------ C9
\* the fields of element k a stage up to and including stage s has written
WrittenUpTo(e, s) ==
  <<IF s >= 1 /\ e.Type = Radius THEN <<e.Vp, e.AMin, e.AMax>> ELSE <<>>,
    IF s >= 2 /\ e.Type = Straight THEN <<e.Vp>> ELSE <<>>,
    IF s >= 3 /\ e.Type = Clothoid THEN <<e.Vp>> ELSE <<>>,
    IF s >= 4 THEN <<e.MinLength, e.MaxLength>> ELSE <<>>>>

\* one step that changes an element respects the order of the stages
C9_Step ==
  \/ elements' = elements
  \/ /\ \A k \in DOMAIN elements :
          /\ k \in DOMAIN elements'
          /\ elements'[k].Id = elements[k].Id
          /\ elements'[k].Type = elements[k].Type
          /\ elements'[k].Length = elements[k].Length
          /\ elements'[k].Radius = elements[k].Radius
     /\ pc # "read" => DOMAIN elements' = DOMAIN elements
     /\ (\E k \in DOMAIN elements :
           /\ elements[k].Type \in {Straight, Clothoid}
           /\ elements'[k].Vp # elements[k].Vp)
        => \A j \in DOMAIN elements :
             elements[j].Type = Radius =>
               /\ elements[j].Vp # 0
               /\ elements[j].AMin # 0
               /\ elements[j].AMax # 0
     /\ (\E k \in DOMAIN elements :
           \/ elements'[k].MinLength # elements[k].MinLength
           \/ elements'[k].MaxLength # elements[k].MaxLength)
        => \A j \in DOMAIN elements : elements[j].Vp # 0
     /\ (\E k \in DOMAIN elements : elements'[k].Errors # elements[k].Errors)
        => \A j \in DOMAIN elements :
             /\ elements[j].MinLength # 0
             /\ elements[j].Type = Clothoid => elements[j].MaxLength # 0
     /\ LET s == StageNo
        IN s >= 2 =>
             \A k \in DOMAIN elements :
               WrittenUpTo(elements'[k], s - 1) = WrittenUpTo(elements[k], s - 1)

\* C9: the stages run strictly in series: no Straight or Clothoid Vp before
\* every Radius has Vp, AMin and AMax; no length bound before every Vp; no
\* flag before every length bound; a field written by an earlier stage never
\* changes once a later stage has started; id, kind, length, radius and the
\* order never change.
C9_StagesInSeries == [][C9_Step]_vars

\* C9 witness: a run over all three kinds has finished with every stage's
\* fields written and a flag set.
C9_Witness ==
  /\ pc = "done"
  /\ \A t \in {Straight, Clothoid, Radius} :
       \E k \in DOMAIN elements : elements[k].Type = t
  /\ \A k \in DOMAIN elements : elements[k].Vp # 0 /\ elements[k].MinLength # 0
  /\ \E k \in DOMAIN elements : elements[k].Errors # {}

\* ----------------------------------------------------------------- C10
\* every Straight has a Radius before or after it
WellFormed(elems) ==
  \A k \in DOMAIN elems :
    elems[k].Type = Straight =>
      \E j \in DOMAIN elems : j # k /\ elems[j].Type = Radius

\* bucket of the straight-breakpoint lookup for the Straight at pos
ClaimBucket(elems, pos) ==
  LET radiusVp == max(VpOrZero(elems, ClosestRadius(elems, pos, -1)),
                      VpOrZero(elems, ClosestRadius(elems, pos, 1)))
  IN radiusVp - (radiusVp % 10)

\* C10: on a well-formed alignment the clothoid-length lookup keyed by each
\* Radius element's capped Vp hits, the straight-breakpoint lookup keyed by
\* the bucket of the larger neighbouring Radius Vp hits one of the buckets
\* 40..90, and the run never stops on a lookup failure.
C10_NoLookupMiss ==
  /\ pc \in {"fatalVpNotFound", "fatalNoClothoidLength"} => ~WellFormed(elements)
  /\ (StageNo >= 2 /\ WellFormed(elements)) =>
       \A k \in DOMAIN elements :
         /\ elements[k].Type = Radius => elements[k].Vp \in DOMAIN clothoidMinLengths
         /\ elements[k].Type = Straight =>
              ClaimBucket(elements, k) \in {40, 50, 60, 70, 80, 90}

TypeOK ==
  /\ pc \in {"read", "radiusVp", "straightVp", "clothoidVp", "minLength",
             "vpDiff", "checkLengths", "table", "meanVp", "done", "panic",
             "fatalRead", "fatalNoClothoidLength", "fatalVpNotFound",
             "fatalNoNearestRadius", "fatalUnknownType"}
  /\ i \in 0..MaxLen
  /\ len(elements) <= MaxLen

====
